---- MODULE Spec2Model ----
(***************************************************************************)
(* Model of the BedrockCwDashboard construct (aws-bedrock-cw-dashboard-    *)
(* custom) and of the calls made on it.  A dashboard is an ordered list of *)
(* rows; the constructor binds a construct to one dashboard and registers  *)
(* one output; addModelMonitoring and addAllModelsMonitoring append rows.  *)
(*                                                                         *)
(* Non-ASCII literals of the source (Korean labels, titles, alarm names)   *)
(* are written as ASCII stand-ins; every other literal is the source's.    *)
(***************************************************************************)
EXTENDS Integers, Sequences, FiniteSets, TLC

VARIABLES
    scopeIds,     \* construct ids already used in the enclosing scope
    dashboards,   \* sequence of Dashboard objects; a handle is an index
    constructs,   \* BedrockCwDashboard id -> [dashboard, children, props]
    outputs,      \* sequence of CfnOutput [construct, id, value]
    calls,        \* history: one record per configuration call (arguments,
                  \* metric references built, rows start+1..end appended)
    thrown        \* an Error propagated out of the program

vars == <<scopeIds, dashboards, constructs, outputs, calls, thrown>>

(***************************************************************************)
(* JavaScript values.                                                      *)
(***************************************************************************)
undefined == [type |-> "undefined"]

\* a finite number, as the rational n/d (0.003 is Num(3, 1000))
Num(n, d) == [type |-> "number", nan |-> FALSE, n |-> n, d |-> d]

NaN == [type |-> "number", nan |-> TRUE, n |-> 0, d |-> 1]

Str(s) == [type |-> "string", s |-> s]

\* Duration.minutes(m) / Duration.seconds(s), held in seconds
Duration(seconds) == [type |-> "Duration", seconds |-> seconds]

Minutes(m) == Duration(m * 60)

\* ToBoolean of an optional number (the operand of `&&` and of `if`)
Truthy(v) ==
    /\ v.type = "number"
    /\ ~v.nan
    /\ v.n # 0

\* the original claim's test: `v != null`
NotNull(v) == v.type # "undefined"

\* a ?? b
Coalesce(a, b) == IF a.type = "undefined" THEN b ELSE a

\* the string a value contributes to `+` concatenation
ToStr(v) == IF v.type = "undefined" THEN "undefined" ELSE v.s

(***************************************************************************)
(* Library objects, as far as the construct uses them.                     *)
(***************************************************************************)
\* Stats.SUM, Stats.AVERAGE, Stats.MINIMUM, Stats.MAXIMUM
StatsSUM == "Sum"

StatsAVERAGE == "Average"

StatsMINIMUM == "Minimum"

StatsMAXIMUM == "Maximum"

\* new Row(...widgets)
Row(widgets) == [widget |-> "Row", widgets |-> widgets]

\* a dashboard that puts the new row in front of the rows it holds
AddWidgetsInFront(rows, widgets) ==
    IF Len(widgets) = 0
    THEN rows
    ELSE <<IF Len(widgets) > 1 THEN Row(widgets) ELSE widgets[1]>> \o rows

\* a dashboard that drops a row equal to one it already holds
AddWidgetsDedup(rows, widgets) ==
    LET w == IF Len(widgets) > 1 THEN Row(widgets) ELSE widgets[1]
    IN  IF Len(widgets) = 0 \/ (\E i \in 1..Len(rows) : rows[i] = w)
        THEN rows
        ELSE Append(rows, w)

\* dashboard.addWidgets(...widgets): one call appends one row; several
\* widgets given in one call are laid out next to each other as a Row
AddWidgets(rows, widgets) ==
    IF Len(widgets) = 0
    THEN rows
    ELSE Append(rows, IF Len(widgets) > 1 THEN Row(widgets) ELSE widgets[1])

(***************************************************************************)
(* Metric-math expressions.  A template string is the sequence of its      *)
(* tokens; `${price}` contributes the number's literal.                    *)
(***************************************************************************)
Id(name) == [t |-> "id", name |-> name]

Op(name) == [t |-> "op", name |-> name]

Lit(n, d) == [t |-> "num", n |-> n, d |-> d]

\* `${v}`: the literal of a finite number, else the word the value prints as
Interpolate(v) ==
    IF v.type = "number" /\ ~v.nan
    THEN Lit(v.n, v.d)
    ELSE Id(IF v.type = "undefined" THEN "undefined" ELSE "NaN")

RECURSIVE GCD(_, _)
GCD(a, b) == IF b = 0 THEN a ELSE GCD(b, a % b)

\* exact arithmetic on fractions <<numerator, denominator>> in lowest terms
Norm(a) ==
    LET g == GCD(IF a[1] < 0 THEN -a[1] ELSE a[1], a[2])
    IN  <<a[1] \div g, a[2] \div g>>

RMul(a, b) ==
    LET x == Norm(<<a[1], b[2]>>)
        y == Norm(<<b[1], a[2]>>)
    IN  Norm(<<x[1] * y[1], x[2] * y[2]>>)

RDiv(a, b) == RMul(a, <<b[2], b[1]>>)

RAdd(a, b) ==
    LET g == GCD(a[2], b[2])
    IN  Norm(<<a[1] * (b[2] \div g) + b[1] * (a[2] \div g), (a[2] \div g) * b[2]>>)

REq(a, b) == Norm(a) = Norm(b)

\* the value of one operand: a literal, or the datapoint of the metric the
\* identifier is bound to by usingMetrics
Operand(tok, usingMetrics, data) ==
    IF tok.t = "id"
    THEN <<data[usingMetrics[tok.name].metricName], 1>>
    ELSE <<tok.n, tok.d>>

RECURSIVE TermEnd(_, _)
\* index of the first "+" at or after i, Len + 1 when there is none
TermEnd(toks, i) ==
    IF i > Len(toks) THEN i
    ELSE IF toks[i].t = "op" /\ toks[i].name = "+" THEN i
    ELSE TermEnd(toks, i + 1)

RECURSIVE TermValue(_, _, _, _, _)
\* toks[lo..hi], a product/quotient chain, evaluated left to right
TermValue(toks, lo, hi, usingMetrics, data) ==
    IF hi = lo
    THEN Operand(toks[lo], usingMetrics, data)
    ELSE LET left  == TermValue(toks, lo, hi - 2, usingMetrics, data)
             right == Operand(toks[hi], usingMetrics, data)
         IN  IF toks[hi - 1].name = "*" THEN RMul(left, right) ELSE RDiv(left, right)

RECURSIVE SumValue(_, _, _, _)
\* toks[lo..], a sum of terms
SumValue(toks, lo, usingMetrics, data) ==
    LET e == TermEnd(toks, lo)
    IN  IF e > Len(toks)
        THEN TermValue(toks, lo, e - 1, usingMetrics, data)
        ELSE RAdd(TermValue(toks, lo, e - 1, usingMetrics, data),
                  SumValue(toks, e + 1, usingMetrics, data))

\* the value a MathExpression series shows for the datapoints `data`
\* (metric name -> value)
Evaluate(mathExpression, data) ==
    SumValue(mathExpression.expression, 1, mathExpression.usingMetrics, data)

(***************************************************************************)
(* addModelMonitoring(modelName, modelId, props): metric references.       *)
(***************************************************************************)
\* the default the period falls back to: Duration.minutes(1)
DefaultPeriodMinutes == 1

\* a construct whose default is the documented "1 hour"
OneHourPeriodOf(props) == Coalesce(props.period, Minutes(60))

\* const period = props.period ?? Duration.minutes(1)
PeriodOf(props) == Coalesce(props.period, Minutes(DefaultPeriodMinutes))

\* const outputImageCountDimension = modelId + props.imageSize + props.bucketedStepSize
outputImageCountDimension(modelId, props) ==
    modelId \o ToStr(props.imageSize) \o ToStr(props.bucketedStepSize)

modelInputTokensMetric(modelId, period) ==
    [namespace |-> "AWS/Bedrock", metricName |-> "InputTokenCount",
     dimensionsMap |-> [ModelId |-> modelId],
     statistic |-> StatsSUM, period |-> period]

modelOutputTokensMetric(modelId, period) ==
    [namespace |-> "AWS/Bedrock", metricName |-> "OutputTokenCount",
     dimensionsMap |-> [ModelId |-> modelId],
     statistic |-> StatsSUM, period |-> period]

\* an output-image metric whose dimension value puts the tags first
modelOutputImageMetricTagsFirst(modelId, props, period) ==
    [namespace |-> "AWS/Bedrock", metricName |-> "OutputImageCount",
     dimensionsMap |->
        [ModelId |-> ToStr(props.imageSize) \o ToStr(props.bucketedStepSize) \o modelId],
     statistic |-> StatsSUM, period |-> period]

modelOutputImageMetric(modelId, props, period) ==
    [namespace |-> "AWS/Bedrock", metricName |-> "OutputImageCount",
     dimensionsMap |-> [ModelId |-> outputImageCountDimension(modelId, props)],
     statistic |-> StatsSUM, period |-> period]

modelLatencyAvgMetric(modelId, period) ==
    [namespace |-> "AWS/Bedrock", metricName |-> "InvocationLatency",
     dimensionsMap |-> [ModelId |-> modelId],
     statistic |-> StatsAVERAGE, period |-> period]

modelLatencyMinMetric(modelId, period) ==
    [namespace |-> "AWS/Bedrock", metricName |-> "InvocationLatency",
     dimensionsMap |-> [ModelId |-> modelId],
     statistic |-> StatsMINIMUM, period |-> period]

modelLatencyMaxMetric(modelId, period) ==
    [namespace |-> "AWS/Bedrock", metricName |-> "InvocationLatency",
     dimensionsMap |-> [ModelId |-> modelId],
     statistic |-> StatsMAXIMUM, period |-> period]

modelInvocationsCountMetric(modelId, period) ==
    [namespace |-> "AWS/Bedrock", metricName |-> "Invocations",
     dimensionsMap |-> [ModelId |-> modelId],
     statistic |-> StatsSUM, period |-> period]

modelInvocationsClientErrorsMetric(modelId, period) ==
    [namespace |-> "AWS/Bedrock", metricName |-> "InvocationClientErrors",
     dimensionsMap |-> [ModelId |-> modelId],
     statistic |-> StatsSUM, period |-> period]

modelInvocationsServerErrorsMetric(modelId, period) ==
    [namespace |-> "AWS/Bedrock", metricName |-> "InvocationServerErrors",
     dimensionsMap |-> [ModelId |-> modelId],
     statistic |-> StatsSUM, period |-> period]

modelInvocationsThrottlesErrorsMetric(modelId, period) ==
    [namespace |-> "AWS/Bedrock", metricName |-> "InvocationThrottles",
     dimensionsMap |-> [ModelId |-> modelId],
     statistic |-> StatsSUM, period |-> period]

modelInvocationsLegacysMetric(modelId, period) ==
    [namespace |-> "AWS/Bedrock", metricName |-> "LegacyModelInvocations",
     dimensionsMap |-> [ModelId |-> modelId],
     statistic |-> StatsSUM, period |-> period]

\* the eleven metric references one addModelMonitoring call builds
ModelMetrics(modelId, props) ==
    LET period == PeriodOf(props)
    IN  << modelInputTokensMetric(modelId, period),
           modelOutputTokensMetric(modelId, period),
           modelOutputImageMetric(modelId, props, period),
           modelLatencyAvgMetric(modelId, period),
           modelLatencyMinMetric(modelId, period),
           modelLatencyMaxMetric(modelId, period),
           modelInvocationsCountMetric(modelId, period),
           modelInvocationsClientErrorsMetric(modelId, period),
           modelInvocationsServerErrorsMetric(modelId, period),
           modelInvocationsThrottlesErrorsMetric(modelId, period),
           modelInvocationsLegacysMetric(modelId, period) >>

(***************************************************************************)
(* addModelMonitoring: the widgets of its four addWidgets calls.           *)
(***************************************************************************)
\* new Row(new TextWidget({ markdown: `# ${modelName}`, width: 24 }))
ModelTitleRow(modelName) ==
    Row(<< [widget |-> "TextWidget", markdown |-> "# " \o modelName, width |-> 24] >>)

\* new Row(SingleValueWidget x3): Average, Min, Max Latency
ModelLatencyRow(modelId, period) ==
    Row(<< [widget |-> "SingleValueWidget", title |-> "Average Latency",
            metrics |-> <<modelLatencyAvgMetric(modelId, period)>>,
            setPeriodToTimeRange |-> TRUE, width |-> 8],
           [widget |-> "SingleValueWidget", title |-> "Min Latency",
            metrics |-> <<modelLatencyMinMetric(modelId, period)>>,
            setPeriodToTimeRange |-> TRUE, width |-> 8],
           [widget |-> "SingleValueWidget", title |-> "Max Latency",
            metrics |-> <<modelLatencyMaxMetric(modelId, period)>>,
            setPeriodToTimeRange |-> TRUE, width |-> 8] >>)

\* `inputTokens / 1000 * ${props.inputTokenPrice}`
InputCostExpression(modelId, period, props) ==
    [expression |-> << Id("inputTokens"), Op("/"), Lit(1000, 1), Op("*"),
                       Interpolate(props.inputTokenPrice) >>,
     usingMetrics |-> [inputTokens |-> modelInputTokensMetric(modelId, period)],
     label |-> "Input Token Cost"]

\* `outputTokens / 1000 * ${props.outputTokenPrice}`
OutputCostExpression(modelId, period, props) ==
    [expression |-> << Id("outputTokens"), Op("/"), Lit(1000, 1), Op("*"),
                       Interpolate(props.outputTokenPrice) >>,
     usingMetrics |-> [outputTokens |-> modelOutputTokensMetric(modelId, period)],
     label |-> "Output Token Cost"]

\* a total that bills the output tokens at the input price
TotalCostExpressionOnePrice(modelId, period, props) ==
    [expression |-> << Id("inputTokens"), Op("/"), Lit(1000, 1), Op("*"),
                       Interpolate(props.inputTokenPrice), Op("+"),
                       Id("outputTokens"), Op("/"), Lit(1000, 1), Op("*"),
                       Interpolate(props.inputTokenPrice) >>,
     usingMetrics |-> [inputTokens  |-> modelInputTokensMetric(modelId, period),
                       outputTokens |-> modelOutputTokensMetric(modelId, period)],
     label |-> "Total Cost"]

\* `inputTokens / 1000 * ${props.inputTokenPrice} + outputTokens / 1000 * ${props.outputTokenPrice}`
TotalCostExpression(modelId, period, props) ==
    [expression |-> << Id("inputTokens"), Op("/"), Lit(1000, 1), Op("*"),
                       Interpolate(props.inputTokenPrice), Op("+"),
                       Id("outputTokens"), Op("/"), Lit(1000, 1), Op("*"),
                       Interpolate(props.outputTokenPrice) >>,
     usingMetrics |-> [inputTokens  |-> modelInputTokensMetric(modelId, period),
                       outputTokens |-> modelOutputTokensMetric(modelId, period)],
     label |-> "Total Cost"]

\* the 'Token Cost (USD)' GraphWidget
TokenCostWidget(modelId, period, props) ==
    [widget |-> "GraphWidget", title |-> "Token Cost (USD)",
     left |-> << InputCostExpression(modelId, period, props),
                 OutputCostExpression(modelId, period, props) >>,
     leftYAxis |-> [label |-> "Input and Output", showUnits |-> FALSE],
     right |-> << TotalCostExpression(modelId, period, props) >>,
     rightYAxis |-> [label |-> "Total", showUnits |-> FALSE],
     width |-> 12, height |-> 10]

\* a guard that tests presence (`!= null`) instead of truthiness
HasPricingNotNull(props) ==
    NotNull(props.inputTokenPrice) /\ NotNull(props.outputTokenPrice)

\* a guard that is satisfied by either price
HasPricingEither(props) ==
    Truthy(props.inputTokenPrice) \/ Truthy(props.outputTokenPrice)

\* if (props.inputTokenPrice && props.outputTokenPrice)
HasPricing(props) ==
    Truthy(props.inputTokenPrice) /\ Truthy(props.outputTokenPrice)

\* let pricingWidget; if (...) { pricingWidget = new GraphWidget({...}) }
pricingWidget(modelId, period, props) ==
    IF HasPricing(props) THEN TokenCostWidget(modelId, period, props) ELSE undefined

\* the 'Input and Output Token Counts' GraphWidget
TokenCountWidget(modelId, period) ==
    [widget |-> "GraphWidget", title |-> "Input and Output Token Counts",
     left |-> <<modelInputTokensMetric(modelId, period)>>,
     right |-> <<modelOutputTokensMetric(modelId, period)>>,
     period |-> period, width |-> 12, height |-> 10]

\* new Row(GraphWidget, ...(pricingWidget ? [pricingWidget] : []))
ModelTokenRow(modelId, period, props) ==
    LET pw == pricingWidget(modelId, period, props)
    IN  Row(<<TokenCountWidget(modelId, period)>>
            \o (IF pw # undefined THEN <<pw>> ELSE << >>))

\* six tiles of which the client-error and server-error tiles show each
\* other's metric
ModelCountTilesErrorsSwapped(modelId, period, props) ==
    << [widget |-> "SingleValueWidget", title |-> "Invocations",
        metrics |-> <<modelInvocationsCountMetric(modelId, period)>>,
        setPeriodToTimeRange |-> TRUE, width |-> 4],
       [widget |-> "SingleValueWidget", title |-> "Client Errors",
        metrics |-> <<modelInvocationsServerErrorsMetric(modelId, period)>>,
        setPeriodToTimeRange |-> TRUE, width |-> 4],
       [widget |-> "SingleValueWidget", title |-> "Server Errors",
        metrics |-> <<modelInvocationsClientErrorsMetric(modelId, period)>>,
        setPeriodToTimeRange |-> TRUE, width |-> 4],
       [widget |-> "SingleValueWidget", title |-> "Throttled invocations",
        metrics |-> <<modelInvocationsThrottlesErrorsMetric(modelId, period)>>,
        setPeriodToTimeRange |-> TRUE, width |-> 4],
       [widget |-> "SingleValueWidget", title |-> "Legacy invocations",
        metrics |-> <<modelInvocationsLegacysMetric(modelId, period)>>,
        setPeriodToTimeRange |-> TRUE, width |-> 4],
       [widget |-> "SingleValueWidget", title |-> "OutputImageCount",
        metrics |-> <<modelOutputImageMetric(modelId, props, period)>>,
        setPeriodToTimeRange |-> TRUE, width |-> 4] >>

\* the six SingleValueWidgets handed to the last addWidgets call
ModelCountTiles(modelId, period, props) ==
    << [widget |-> "SingleValueWidget", title |-> "Invocations",
        metrics |-> <<modelInvocationsCountMetric(modelId, period)>>,
        setPeriodToTimeRange |-> TRUE, width |-> 4],
       [widget |-> "SingleValueWidget", title |-> "Client Errors",
        metrics |-> <<modelInvocationsClientErrorsMetric(modelId, period)>>,
        setPeriodToTimeRange |-> TRUE, width |-> 4],
       [widget |-> "SingleValueWidget", title |-> "Server Errors",
        metrics |-> <<modelInvocationsServerErrorsMetric(modelId, period)>>,
        setPeriodToTimeRange |-> TRUE, width |-> 4],
       [widget |-> "SingleValueWidget", title |-> "Throttled invocations",
        metrics |-> <<modelInvocationsThrottlesErrorsMetric(modelId, period)>>,
        setPeriodToTimeRange |-> TRUE, width |-> 4],
       [widget |-> "SingleValueWidget", title |-> "Legacy invocations",
        metrics |-> <<modelInvocationsLegacysMetric(modelId, period)>>,
        setPeriodToTimeRange |-> TRUE, width |-> 4],
       [widget |-> "SingleValueWidget", title |-> "OutputImageCount",
        metrics |-> <<modelOutputImageMetric(modelId, props, period)>>,
        setPeriodToTimeRange |-> TRUE, width |-> 4] >>

\* a body that hands the title and the latency tiles to one addWidgets call
ModelMonitoringRowsMerged(rows, modelName, modelId, props) ==
    LET period == PeriodOf(props)
        r1 == AddWidgets(rows, ModelTitleRow(modelName).widgets
                               \o ModelLatencyRow(modelId, period).widgets)
        r3 == AddWidgets(r1, <<ModelTokenRow(modelId, period, props)>>)
    IN  AddWidgets(r3, ModelCountTiles(modelId, period, props))

\* the rows of the dashboard after the four addWidgets calls of the body
ModelMonitoringRows(rows, modelName, modelId, props) ==
    LET period == PeriodOf(props)
        r1 == AddWidgets(rows, <<ModelTitleRow(modelName)>>)
        r2 == AddWidgets(r1, <<ModelLatencyRow(modelId, period)>>)
        r3 == AddWidgets(r2, <<ModelTokenRow(modelId, period, props)>>)
    IN  AddWidgets(r3, ModelCountTiles(modelId, period, props))

(***************************************************************************)
(* addAllModelsMonitoring(props): metric references.                       *)
(***************************************************************************)
\* const period = props.period ?? Duration.minutes(1)
AllModelsPeriodOf(props) == Coalesce(props.period, Minutes(DefaultPeriodMinutes))

\* const color = "#caedfc"
color == "#caedfc"

inputTokensAllModelsMetric(period) ==
    [namespace |-> "AWS/Bedrock", metricName |-> "InputTokenCount",
     statistic |-> StatsSUM, period |-> period]

outputTokensAllModelsMetric(period) ==
    [namespace |-> "AWS/Bedrock", metricName |-> "OutputTokenCount",
     statistic |-> StatsSUM, period |-> period]

titanEmbedTextV2modelLatencyAvgMetric(period) ==
    [namespace |-> "AWS/Bedrock", metricName |-> "InvocationLatency",
     dimensionsMap |->
        [ModelId |-> "arn:aws:bedrock:us-west-2::foundation-model/amazon.titan-embed-text-v2:0"],
     statistic |-> StatsAVERAGE, period |-> period,
     color |-> color, label |-> "average invocation latency"]

claude35sonnetmodelLatencyAvgMetric(period) ==
    [namespace |-> "AWS/Bedrock", metricName |-> "InvocationLatency",
     dimensionsMap |-> [ModelId |-> "anthropic.claude-3-5-sonnet-20241022-v2:0"],
     statistic |-> StatsAVERAGE, period |-> period,
     color |-> color, label |-> "average invocation latency"]

\* this one is built with period: Duration.minutes(1), not with `period`
claude35sonnetmodelInvocationsPerMinMetric ==
    [namespace |-> "AWS/Bedrock", metricName |-> "Invocations",
     dimensionsMap |-> [ModelId |-> "anthropic.claude-3-5-sonnet-20241022-v2:0"],
     statistic |-> StatsSUM, period |-> Minutes(1),
     color |-> color, label |-> "invocations per minute"]

outputImageMetric(period) ==
    [namespace |-> "AWS/Bedrock", metricName |-> "OutputImageCount",
     statistic |-> StatsSUM, period |-> period]

\* an average-latency metric built with one minute, whatever `period` is
latencyAvgAllModelsMetricOneMinute(period) ==
    [namespace |-> "AWS/Bedrock", metricName |-> "InvocationLatency",
     statistic |-> StatsAVERAGE, period |-> Minutes(1), color |-> color]

latencyAvgAllModelsMetric(period) ==
    [namespace |-> "AWS/Bedrock", metricName |-> "InvocationLatency",
     statistic |-> StatsAVERAGE, period |-> period, color |-> color]

latencyMinAllModelsMetric(period) ==
    [namespace |-> "AWS/Bedrock", metricName |-> "InvocationLatency",
     statistic |-> StatsMINIMUM, period |-> period, color |-> color]

latencyMaxAllModelsMetric(period) ==
    [namespace |-> "AWS/Bedrock", metricName |-> "InvocationLatency",
     statistic |-> StatsMAXIMUM, period |-> period, color |-> color]

invocationsCountAllModelsMetric(period) ==
    [namespace |-> "AWS/Bedrock", metricName |-> "Invocations",
     statistic |-> StatsSUM, period |-> period,
     color |-> color, label |-> "total invocations"]

invocationsClientErrorsAllModelsMetric(period) ==
    [namespace |-> "AWS/Bedrock", metricName |-> "InvocationClientErrors",
     statistic |-> StatsSUM, period |-> period, color |-> color]

invocationsServerErrorsAllModelsMetric(period) ==
    [namespace |-> "AWS/Bedrock", metricName |-> "InvocationServerErrors",
     statistic |-> StatsSUM, period |-> period, color |-> color]

invocationsThrottlesErrorsMetric(period) ==
    [namespace |-> "AWS/Bedrock", metricName |-> "InvocationThrottles",
     statistic |-> StatsSUM, period |-> period, color |-> color]

invocationsLegacyModelMetric(period) ==
    [namespace |-> "AWS/Bedrock", metricName |-> "LegacyModelInvocations",
     statistic |-> StatsSUM, period |-> period]

guadrailsInvocationsIntervenedMetric(period) ==
    [namespace |-> "AWS/Bedrock/Guardrails", metricName |-> "InvocationsIntervened",
     dimensionsMap |-> [Operation |-> "ApplyGuardrail"],
     statistic |-> StatsSUM, period |-> period, color |-> "Color.RED"]

guadrailsTextUnitCountTextUnitCountMetric(period) ==
    [namespace |-> "AWS/Bedrock/Guardrails", metricName |-> "TextUnitCount",
     dimensionsMap |-> [Operation |-> "ApplyGuardrail"],
     statistic |-> StatsSUM, period |-> period, color |-> "Color.ORANGE"]

\* the sixteen metric references one addAllModelsMonitoring call builds
AllModelsMetrics(props) ==
    LET period == AllModelsPeriodOf(props)
    IN  << inputTokensAllModelsMetric(period),
           outputTokensAllModelsMetric(period),
           titanEmbedTextV2modelLatencyAvgMetric(period),
           claude35sonnetmodelLatencyAvgMetric(period),
           claude35sonnetmodelInvocationsPerMinMetric,
           outputImageMetric(period),
           latencyAvgAllModelsMetric(period),
           latencyMinAllModelsMetric(period),
           latencyMaxAllModelsMetric(period),
           invocationsCountAllModelsMetric(period),
           invocationsClientErrorsAllModelsMetric(period),
           invocationsServerErrorsAllModelsMetric(period),
           invocationsThrottlesErrorsMetric(period),
           invocationsLegacyModelMetric(period),
           guadrailsInvocationsIntervenedMetric(period),
           guadrailsTextUnitCountTextUnitCountMetric(period) >>

(***************************************************************************)
(* addAllModelsMonitoring: the widgets of its two addWidgets calls.        *)
(***************************************************************************)
\* the TextWidget heading the first row (markdown abridged)
AllModelsTextWidget ==
    [widget |-> "TextWidget",
     markdown |-> "# AnyBooks Chatbot monitoring dashboard",
     width |-> 6, height |-> 6]

AverageLatencyGauge(period) ==
    [widget |-> "GaugeWidget", title |-> "Average Latency (All Models)",
     metrics |-> <<latencyAvgAllModelsMetric(period)>>,
     width |-> 6, height |-> 6, period |-> period,
     setPeriodToTimeRange |-> TRUE, liveData |-> TRUE,
     leftYAxis |-> [min |-> 0, max |-> 15000],
     legendPosition |-> "bottom",
     annotations |->
        << [color |-> "#b2df8d", label |-> "under 5s", value |-> 5000, fill |-> "below"],
           [color |-> "#f89256", label |-> "over 5s under 8s", value |-> 5000, fill |-> "above"],
           [color |-> "#fe6e73", label |-> "over 8s", value |-> 8000, fill |-> "above"] >>]

MinLatencyGauge(period) ==
    [widget |-> "GaugeWidget", title |-> "Min Latency (All Models)",
     metrics |-> <<latencyMinAllModelsMetric(period)>>,
     width |-> 6, height |-> 6, period |-> period,
     setPeriodToTimeRange |-> TRUE, liveData |-> TRUE,
     leftYAxis |-> [min |-> 0, max |-> 15000],
     legendPosition |-> "bottom",
     annotations |->
        << [color |-> "#b2df8d", label |-> "under 5s", value |-> 5000, fill |-> "below"],
           [color |-> "#f89256", label |-> "over 5s under 8s", value |-> 5000, fill |-> "above"],
           [color |-> "#fe6e73", label |-> "over 8s", value |-> 8000, fill |-> "above"] >>]

\* a max-latency gauge whose bands scale with the aggregation period
MaxLatencyGaugeScaled(period) ==
    [widget |-> "GaugeWidget", title |-> "Max Latency (All Models)",
     metrics |-> <<latencyMaxAllModelsMetric(period)>>,
     width |-> 6, height |-> 6, period |-> period,
     setPeriodToTimeRange |-> TRUE, liveData |-> TRUE,
     leftYAxis |-> [min |-> 0, max |-> 15000],
     legendPosition |-> "bottom",
     annotations |->
        << [color |-> "#b2df8d", label |-> "under 5s", value |-> 5000, fill |-> "below"],
           [color |-> "#f89256", label |-> "over 5s under 8s", value |-> 5000, fill |-> "above"],
           [color |-> "#fe6e73", label |-> "over 8s",
            value |-> 8000 + period.seconds, fill |-> "above"] >>]

MaxLatencyGauge(period) ==
    [widget |-> "GaugeWidget", title |-> "Max Latency (All Models)",
     metrics |-> <<latencyMaxAllModelsMetric(period)>>,
     width |-> 6, height |-> 6, period |-> period,
     setPeriodToTimeRange |-> TRUE, liveData |-> TRUE,
     leftYAxis |-> [min |-> 0, max |-> 15000],
     legendPosition |-> "bottom",
     annotations |->
        << [color |-> "#b2df8d", label |-> "under 5s", value |-> 5000, fill |-> "below"],
           [color |-> "#f89256", label |-> "over 5s under 8s", value |-> 5000, fill |-> "above"],
           [color |-> "#fe6e73", label |-> "over 8s", value |-> 8000, fill |-> "above"] >>]

\* new Row(TextWidget, GaugeWidget x3)
AllModelsFirstRow(period) ==
    Row(<< AllModelsTextWidget,
           AverageLatencyGauge(period),
           MinLatencyGauge(period),
           MaxLatencyGauge(period) >>)

\* the second row's widgets that come before the AlarmStatusWidget
AllModelsSecondRowHead(period) ==
    << [widget |-> "GraphWidget", title |-> "Input and Output Tokens (All Models)",
        left |-> <<inputTokensAllModelsMetric(period)>>,
        right |-> <<outputTokensAllModelsMetric(period)>>,
        period |-> period, width |-> 12],
       [widget |-> "SingleValueWidget", title |-> "Invocations (All Models)",
        metrics |-> <<invocationsCountAllModelsMetric(period)>>,
        width |-> 4, height |-> 4, period |-> period, setPeriodToTimeRange |-> TRUE],
       [widget |-> "SingleValueWidget",
        title |-> "[Titan Text Embeddings V2] Invocation Latency",
        metrics |-> <<titanEmbedTextV2modelLatencyAvgMetric(period)>>,
        width |-> 4, height |-> 4, period |-> period, setPeriodToTimeRange |-> TRUE],
       [widget |-> "SingleValueWidget", title |-> "[Claude 3.5 Sonnet] Invocation Latency",
        metrics |-> <<claude35sonnetmodelLatencyAvgMetric(period)>>,
        width |-> 4, height |-> 4, period |-> period, setPeriodToTimeRange |-> TRUE],
       [widget |-> "SingleValueWidget", title |-> "Client Errors (All Models)",
        metrics |-> <<invocationsClientErrorsAllModelsMetric(period)>>,
        period |-> period, setPeriodToTimeRange |-> TRUE, width |-> 4],
       [widget |-> "SingleValueWidget", title |-> "Server Errors (All Models)",
        metrics |-> <<invocationsServerErrorsAllModelsMetric(period)>>,
        period |-> period, setPeriodToTimeRange |-> TRUE, width |-> 4],
       [widget |-> "SingleValueWidget", title |-> "Throttling Errors (All Models)",
        metrics |-> <<invocationsThrottlesErrorsMetric(period)>>,
        period |-> period, setPeriodToTimeRange |-> TRUE, width |-> 4],
       [widget |-> "GraphWidget", title |-> "[Claude 3.5 Sonnet] invocations per minute",
        period |-> Minutes(1), width |-> 6, height |-> 5,
        left |-> <<claude35sonnetmodelInvocationsPerMinMetric>>,
        leftAnnotations |-> << [label |-> "Quota limit", value |-> 250,
                                color |-> "#ff0000"] >>],
       [widget |-> "LogQueryWidget", title |-> "response preference",
        logGroupNames |-> <<"anybooks-streamlit-app">>,
        queryString |-> << "fields @timestamp, @message",
                           "filter @message like \"[Feedback]\"",
                           "parse @message \"[Feedback] *\" as feedback",
                           "stats count() as count by feedback" >>,
        view |-> "pie", width |-> 6, height |-> 5],
       [widget |-> "SingleValueWidget", title |-> "guardrail intervened invocations",
        metrics |-> <<guadrailsInvocationsIntervenedMetric(period)>>,
        width |-> 6, height |-> 4, period |-> period, setPeriodToTimeRange |-> TRUE],
       [widget |-> "SingleValueWidget", title |-> "guardrail text units",
        metrics |-> <<guadrailsTextUnitCountTextUnitCountMetric(period)>>,
        width |-> 6, height |-> 4, period |-> period, setPeriodToTimeRange |-> TRUE],
       [widget |-> "LogQueryWidget", title |-> "payment success / failure",
        logGroupNames |-> <<"/aws/lambda/lambda-bedrock-agent">>,
        queryString |-> << "fields @timestamp, @message",
                           "filter @message like \"[PAY]\"",
                           "parse @message \"[PAY]*\" as payment",
                           "stats count() as count by payment" >>,
        view |-> "pie", width |-> 6, height |-> 4] >>

\* the construct ids the three Alarm.fromAlarmArn(this, id, arn) calls use
AlarmIds == << "Alarm", "Alarm2", "Alarm3" >>

\* the alarm ARNs (alarm names abridged)
AlarmArns ==
    << "arn:aws:cloudwatch:us-west-2:682033488544:alarm:Bedrock invocations over threshold",
       "arn:aws:cloudwatch:us-west-2:682033488544:alarm:Action Group Lambda errors over threshold",
       "arn:aws:cloudwatch:us-west-2:682033488544:alarm:Claude 3.5 Sonnet V2 cost over threshold" >>

\* new AlarmStatusWidget({ alarms: [fromAlarmArn x3], ... })
AllModelsAlarmStatusWidget ==
    [widget |-> "AlarmStatusWidget", title |-> "alarm status",
     alarms |-> [i \in 1..3 |-> [id |-> AlarmIds[i], alarmArn |-> AlarmArns[i]]],
     width |-> 6, height |-> 4]

\* the LogQueryWidget closing the second row
AllModelsPaymentLogTable ==
    [widget |-> "LogQueryWidget", title |-> "payment log",
     logGroupNames |-> <<"/aws/lambda/lambda-bedrock-agent">>,
     queryString |-> << "filter @message like \"[PAY]\"",
                        "fields @timestamp",
                        "parse @message \"[PAY]*\" as payment",
                        "fields @logStream, @log",
                        "sort @timestamp desc",
                        "limit 100" >>,
     view |-> "table", width |-> 24]

\* new Row(...) of the second addWidgets call
\* a second row that has the payment log table in front of the alarm status
AllModelsSecondRowTableFirst(period) ==
    Row(AllModelsSecondRowHead(period)
        \o <<AllModelsPaymentLogTable, AllModelsAlarmStatusWidget>>)

AllModelsSecondRow(period) ==
    Row(AllModelsSecondRowHead(period)
        \o <<AllModelsAlarmStatusWidget, AllModelsPaymentLogTable>>)

(***************************************************************************)
(* Inputs.                                                                 *)
(***************************************************************************)
\* at most this many configuration calls are made in one run
MaxCalls == 2

\* the ids the BedrockCwDashboard constructs are created with
ConstructIds == {"A", "B"}

\* values of props.dashboardName
DashboardNames == {undefined, Str("TeamDashboard")}

\* the name of a dashboard the caller created itself
CallerDashboardName == "CallerDashboard"

\* what a caller's dashboard may already hold when it is handed over
PriorRows ==
    { << >>,
      << [widget |-> "TextWidget", markdown |-> "# existing", width |-> 24] >> }

\* ModelMonitoringProps with every option omitted ({})
NoProps ==
    [period |-> undefined, imageSize |-> undefined, bucketedStepSize |-> undefined,
     inputTokenPrice |-> undefined, outputTokenPrice |-> undefined]

\* the props the stack passes: both prices and a period
StackProps ==
    [NoProps EXCEPT !.inputTokenPrice = Num(3, 1000),
                    !.outputTokenPrice = Num(15, 1000),
                    !.period = Minutes(1)]

\* inputTokenPrice: omitted, 0, NaN, 0.003
InputPrices == {undefined, Num(0, 1), NaN, Num(3, 1000)}

\* outputTokenPrice: omitted, 0, NaN, 0.015
OutputPrices == {undefined, Num(0, 1), NaN, Num(15, 1000)}

\* the ModelMonitoringProps a single construct is exercised with
ModelMonitoringProps ==
    { [NoProps EXCEPT !.inputTokenPrice = i, !.outputTokenPrice = o] :
        i \in InputPrices, o \in OutputPrices }
    \cup { StackProps,
           [NoProps EXCEPT !.inputTokenPrice = Num(25, 100000),
                           !.outputTokenPrice = Num(125, 100000)],
           [NoProps EXCEPT !.inputTokenPrice = Num(15, 1000),
                           !.outputTokenPrice = Num(3, 1000)],
           [NoProps EXCEPT !.period = Minutes(5)],
           [NoProps EXCEPT !.period = Minutes(5),
                           !.inputTokenPrice = Num(3, 1000),
                           !.outputTokenPrice = Num(15, 1000)] }
    \cup { [NoProps EXCEPT !.imageSize = Str("1024x1024")],
           [NoProps EXCEPT !.bucketedStepSize = Str("50")],
           [NoProps EXCEPT !.imageSize = Str("1024x1024"),
                           !.bucketedStepSize = Str("50")],
           [NoProps EXCEPT !.imageSize = Str("1024x1024"),
                           !.bucketedStepSize = Str("50"),
                           !.period = Minutes(5)] }

\* the (modelName, modelId, props) a single construct is exercised with
ModelCalls ==
    { <<"Claude 3.5 Sonnet v2", "anthropic.claude-3-5-sonnet-20241022-v2:0", props>> :
        props \in ModelMonitoringProps }
    \cup { <<"X", "X", NoProps>>, <<"X", "X", StackProps>> }

\* the props addAllModelsMonitoring is called with (it reads only period)
AllModelsProps ==
    { NoProps,
      [NoProps EXCEPT !.period = Minutes(1)],
      [NoProps EXCEPT !.period = Minutes(5)] }

\* the calls made when several constructs and dashboards are in play
FewModelCalls ==
    { <<"Claude 3.5 Sonnet v2", "anthropic.claude-3-5-sonnet-20241022-v2:0", StackProps>>,
      <<"X", "X", NoProps>> }

FewAllModelsProps == { NoProps, [NoProps EXCEPT !.period = Minutes(5)] }

(***************************************************************************)
(* The constructor.                                                        *)
(***************************************************************************)
\* Aws.REGION
AwsREGION == "${AWS::Region}"

\* the name a new dashboard gets when props.dashboardName is omitted
DefaultDashboardName == "AnyBooksMonitoringDashboard"

\* the URL built from a name the caller asked for, not the dashboard's own
cloudwatchDashboardURLOfProps(dashboardName, props) ==
    "https://" \o AwsREGION \o ".console.aws.amazon.com/cloudwatch/home?region="
        \o AwsREGION \o "#dashboards:name="
        \o Coalesce(props.dashboardName, Str(DefaultDashboardName)).s

\* 'https://' + Aws.REGION + '...home?region=' + Aws.REGION
\*     + '#dashboards:name=' + this.dashboard.dashboardName
cloudwatchDashboardURL(dashboardName, props) ==
    "https://" \o AwsREGION \o ".console.aws.amazon.com/cloudwatch/home?region="
        \o AwsREGION \o "#dashboards:name=" \o dashboardName

\* a constructor that creates its own dashboard whatever it is handed
CreatesDashboardAlways(props) == TRUE

\* props.existingDashboard ?? new Dashboard(...): the right side is evaluated
\* only when no dashboard was handed in
CreatesDashboard(props) == props.existingDashboard = undefined

\* new Dashboard(this, ..., { dashboardName: props.dashboardName ?? '...' })
\* a new dashboard that starts out with a heading row of its own
NewDashboardWithHeading(id, props) ==
    [dashboardName |-> Coalesce(props.dashboardName, Str(DefaultDashboardName)).s,
     createdBy |-> id,
     rows |-> << [widget |-> "TextWidget", markdown |-> "# Bedrock", width |-> 24] >>]

NewDashboard(id, props) ==
    [dashboardName |-> Coalesce(props.dashboardName, Str(DefaultDashboardName)).s,
     createdBy |-> id,
     rows |-> << >>]

Init ==
    /\ scopeIds = {}
    /\ dashboards = << >>
    /\ constructs = [c \in {} |-> undefined]
    /\ outputs = << >>
    /\ calls = << >>
    /\ thrown = FALSE

\* the caller creates a dashboard of its own (to hand over as existingDashboard)
CallerCreatesDashboard(prior) ==
    /\ ~thrown
    /\ \A h \in 1..Len(dashboards) : dashboards[h].createdBy # "caller"
    /\ dashboards' = Append(dashboards,
                            [dashboardName |-> CallerDashboardName,
                             createdBy |-> "caller",
                             rows |-> prior])
    /\ UNCHANGED <<scopeIds, constructs, outputs, calls, thrown>>

\* new BedrockCwDashboard(scope, id, props); the caller gives each construct
\* an id that is free in the scope, as super(scope, id) requires
Constructor(id, props) ==
    /\ ~thrown
    /\ id \notin scopeIds
    /\ LET creates == CreatesDashboard(props)
           handle  == IF creates THEN Len(dashboards) + 1
                      ELSE props.existingDashboard.handle
           ds      == IF creates
                      THEN Append(dashboards, NewDashboard(id, props))
                      ELSE dashboards
           children == (IF creates THEN {"BedrockMetricsDashboard" \o id} ELSE {})
                       \cup {"BedrockMetricsDashboardOutput" \o id}
       IN  /\ scopeIds' = scopeIds \cup {id}
           /\ dashboards' = ds
           /\ constructs' = constructs @@
                  (id :> [dashboard |-> handle, children |-> children,
                          props |-> props])
           /\ outputs' = Append(outputs,
                  [construct |-> id,
                   id |-> "BedrockMetricsDashboardOutput" \o id,
                   value |-> cloudwatchDashboardURL(ds[handle].dashboardName, props)])
           /\ UNCHANGED <<calls, thrown>>

(***************************************************************************)
(* The two configuration operations.                                       *)
(***************************************************************************)
\* bddashboard.addModelMonitoring(modelName, modelId, props)
addModelMonitoring(id, modelName, modelId, props) ==
    /\ ~thrown
    /\ id \in DOMAIN constructs
    /\ LET h      == constructs[id].dashboard
           before == dashboards[h].rows
           after  == ModelMonitoringRows(before, modelName, modelId, props)
       IN  /\ dashboards' = [dashboards EXCEPT ![h].rows = after]
           /\ calls' = Append(calls,
                  [op |-> "addModelMonitoring", construct |-> id,
                   modelName |-> modelName, modelId |-> modelId, props |-> props,
                   metrics |-> ModelMetrics(modelId, props),
                   dashboard |-> h, start |-> Len(before), end |-> Len(after),
                   returned |-> TRUE])
           /\ UNCHANGED <<scopeIds, constructs, outputs, thrown>>

\* Alarm.fromAlarmArn(this, id, arn) adds a child construct named id to
\* `this`, and throws when `this` already has a child of that name
AlarmIdsCollide(children) == \E i \in 1..Len(AlarmIds) : AlarmIds[i] \in children

\* bddashboard.addAllModelsMonitoring(props): the first addWidgets call has
\* returned when the arguments of the second are built
addAllModelsMonitoring(id, props) ==
    /\ ~thrown
    /\ id \in DOMAIN constructs
    /\ LET h      == constructs[id].dashboard
           period == AllModelsPeriodOf(props)
           before == dashboards[h].rows
           r1     == AddWidgets(before, <<AllModelsFirstRow(period)>>)
           throws == AlarmIdsCollide(constructs[id].children)
           after  == IF throws THEN r1
                     ELSE AddWidgets(r1, <<AllModelsSecondRow(period)>>)
       IN  /\ dashboards' = [dashboards EXCEPT ![h].rows = after]
           /\ constructs' =
                  IF throws THEN constructs
                  ELSE [constructs EXCEPT ![id].children =
                           @ \cup {AlarmIds[i] : i \in 1..Len(AlarmIds)}]
           /\ thrown' = throws
           /\ calls' = Append(calls,
                  [op |-> "addAllModelsMonitoring", construct |-> id,
                   props |-> props,
                   metrics |-> AllModelsMetrics(props),
                   dashboard |-> h, start |-> Len(before), end |-> Len(after),
                   returned |-> ~throws])
           /\ UNCHANGED <<scopeIds, outputs>>

\* the values props.existingDashboard can take in the current state
ExistingDashboards ==
    {undefined} \cup {[type |-> "Dashboard", handle |-> h] : h \in 1..Len(dashboards)}

\* several constructs, dashboards handed over by the caller, few inputs
Next ==
    \/ \E prior \in PriorRows : CallerCreatesDashboard(prior)
    \/ \E id \in ConstructIds, e \in ExistingDashboards, n \in DashboardNames :
          Constructor(id, [existingDashboard |-> e, dashboardName |-> n])
    \/ \E id \in ConstructIds, c \in FewModelCalls :
          Len(calls) < MaxCalls /\ addModelMonitoring(id, c[1], c[2], c[3])
    \/ \E id \in ConstructIds, props \in FewAllModelsProps :
          Len(calls) < MaxCalls /\ addAllModelsMonitoring(id, props)

Spec == Init /\ [][Next]_vars

\* one construct, created as the stack creates it (no props), every input
NextOne ==
    \/ Constructor("A", [existingDashboard |-> undefined, dashboardName |-> undefined])
    \/ \E c \in ModelCalls :
          Len(calls) < MaxCalls /\ addModelMonitoring("A", c[1], c[2], c[3])
    \/ \E props \in AllModelsProps :
          Len(calls) < MaxCalls /\ addAllModelsMonitoring("A", props)

SpecOne == Init /\ [][NextOne]_vars

(***************************************************************************)
(* Reading the state: what a call appended.                                *)
(***************************************************************************)
IsModelCall(k) == calls[k].op = "addModelMonitoring"

IsAllModelsCall(k) == calls[k].op = "addAllModelsMonitoring"

\* the rows call k appended to its dashboard
RowsOf(k) ==
    SubSeq(dashboards[calls[k].dashboard].rows, calls[k].start + 1, calls[k].end)

\* the widgets laid out in one entry of the dashboard's row list
WidgetsIn(row) == IF row.widget = "Row" THEN row.widgets ELSE <<row>>

IsSingleValue(w, title, metricName, statistic) ==
    /\ w.widget = "SingleValueWidget"
    /\ w.title = title
    /\ Len(w.metrics) = 1
    /\ w.metrics[1].metricName = metricName
    /\ w.metrics[1].statistic = statistic

IsTitleRow(row, modelName) ==
    /\ Len(WidgetsIn(row)) = 1
    /\ WidgetsIn(row)[1].widget = "TextWidget"
    /\ WidgetsIn(row)[1].markdown = "# " \o modelName

IsLatencyRow(row) ==
    /\ Len(WidgetsIn(row)) = 3
    /\ \A i \in 1..3 :
          /\ WidgetsIn(row)[i].widget = "SingleValueWidget"
          /\ WidgetsIn(row)[i].metrics[1].metricName = "InvocationLatency"

IsTokenCountGraph(w) ==
    /\ w.widget = "GraphWidget"
    /\ w.title = "Input and Output Token Counts"

IsCostGraph(w) ==
    /\ w.widget = "GraphWidget"
    /\ w.title = "Token Cost (USD)"

IsTokenCostRow(row) ==
    /\ Len(WidgetsIn(row)) \in {1, 2}
    /\ IsTokenCountGraph(WidgetsIn(row)[1])
    /\ Len(WidgetsIn(row)) = 2 => IsCostGraph(WidgetsIn(row)[2])

IsSixTileRow(row) ==
    /\ Len(WidgetsIn(row)) = 6
    /\ \A i \in 1..6 :
          /\ WidgetsIn(row)[i].widget = "SingleValueWidget"
          /\ WidgetsIn(row)[i].metrics[1].metricName # "InvocationLatency"
          /\ WidgetsIn(row)[i].metrics[1].statistic = StatsSUM

\* call k put a cost-projection graph on the dashboard
HasCostWidget(k) ==
    \E r \in 1..Len(RowsOf(k)) :
        \E i \in 1..Len(WidgetsIn(RowsOf(k)[r])) : IsCostGraph(WidgetsIn(RowsOf(k)[r])[i])

(***************************************************************************)
(* C1: for every display name, model identifier and configuration, one     *)
(* addModelMonitoring call appends exactly four rows, in the order title   *)
(* row, row of three latency tiles, token/cost row, row of six             *)
(* error/volume tiles.                                                     *)
(***************************************************************************)
C1_FourRowsInOrder ==
    \A k \in 1..Len(calls) :
        IsModelCall(k) =>
            /\ calls[k].returned
            /\ calls[k].end = calls[k].start + 4
            /\ IsTitleRow(RowsOf(k)[1], calls[k].modelName)
            /\ IsLatencyRow(RowsOf(k)[2])
            /\ IsTokenCostRow(RowsOf(k)[3])
            /\ IsSixTileRow(RowsOf(k)[4])

\* two calls, one with prices and a period and one with both image tags,
\* have each appended their four rows
C1_Witness ==
    /\ Len(calls) = 2
    /\ IsModelCall(1) /\ IsModelCall(2)
    /\ calls[1].props.inputTokenPrice # undefined
    /\ calls[1].props.period # undefined
    /\ calls[2].props.imageSize # undefined
    /\ calls[2].props.bucketedStepSize # undefined
    /\ Len(dashboards[calls[2].dashboard].rows) = 8

(***************************************************************************)
(* C2: the cost-projection graph is in the token/cost row if and only if   *)
(* both inputTokenPrice and outputTokenPrice are truthy; otherwise the     *)
(* token/cost row holds only the token-count graph.                        *)
(***************************************************************************)
C2_CostGraphIffBothTruthy ==
    \A k \in 1..Len(calls) :
        IsModelCall(k) =>
            LET both == Truthy(calls[k].props.inputTokenPrice)
                            /\ Truthy(calls[k].props.outputTokenPrice)
                row  == WidgetsIn(RowsOf(k)[3])
            IN  /\ Len(RowsOf(k)) >= 3
                /\ both => /\ Len(row) = 2
                           /\ IsTokenCountGraph(row[1])
                           /\ IsCostGraph(row[2])
                /\ ~both => /\ Len(row) = 1
                            /\ IsTokenCountGraph(row[1])
                /\ HasCostWidget(k) <=> both

\* a call given only the input price appended a token/cost row of one graph,
\* and a call given both prices a row of two
C2_Witness ==
    /\ Len(calls) = 2
    /\ IsModelCall(1) /\ IsModelCall(2)
    /\ Truthy(calls[1].props.inputTokenPrice)
    /\ calls[1].props.outputTokenPrice = undefined
    /\ Len(WidgetsIn(RowsOf(1)[3])) = 1
    /\ Truthy(calls[2].props.inputTokenPrice)
    /\ Truthy(calls[2].props.outputTokenPrice)
    /\ Len(WidgetsIn(RowsOf(2)[3])) = 2

(***************************************************************************)
(* C3 (as stated): for every pair of prices, each omitted or any number,   *)
(* zero included, hasCostWidget == (inputPrice != null &&                  *)
(* outputPrice != null).                                                   *)
(***************************************************************************)
C3_Original_CostGraphIffBothNotNull ==
    \A k \in 1..Len(calls) :
        IsModelCall(k) =>
            (HasCostWidget(k) <=> (NotNull(calls[k].props.inputTokenPrice)
                                      /\ NotNull(calls[k].props.outputTokenPrice)))

\* a number that is supplied and yet falsy: 0 or NaN
FalsyNumber(v) == v.type = "number" /\ (v.nan \/ v.n = 0)

(***************************************************************************)
(* C3 (amended): for every pair of prices of which neither is 0 or NaN,    *)
(* hasCostWidget == (inputPrice != null && outputPrice != null); when a    *)
(* supplied price is 0 or NaN there is no cost widget, whatever the other  *)
(* price is.                                                               *)
(***************************************************************************)
C3_CostGraphIffBothNotNullAndNonZero ==
    \A k \in 1..Len(calls) :
        IsModelCall(k) =>
            LET i == calls[k].props.inputTokenPrice
                o == calls[k].props.outputTokenPrice
            IN  IF FalsyNumber(i) \/ FalsyNumber(o)
                THEN ~HasCostWidget(k)
                ELSE HasCostWidget(k) <=> (NotNull(i) /\ NotNull(o))

\* a call given the prices 0 and 0.015 appended no cost widget
C3_Witness ==
    \E k \in 1..Len(calls) :
        /\ IsModelCall(k)
        /\ calls[k].props.inputTokenPrice = Num(0, 1)
        /\ calls[k].props.outputTokenPrice = Num(15, 1000)
        /\ Len(RowsOf(k)) = 4
        /\ ~HasCostWidget(k)

RECURSIVE WidgetCount(_)
\* the number of widgets in a row list
WidgetCount(rows) ==
    IF rows = << >> THEN 0
    ELSE Len(WidgetsIn(Head(rows))) + WidgetCount(Tail(rows))

\* calls j and k are the same operation on the same construct with the same
\* arguments
SameCall(j, k) ==
    /\ calls[j].op = calls[k].op
    /\ calls[j].construct = calls[k].construct
    /\ calls[j].props = calls[k].props
    /\ IsModelCall(j) => /\ calls[j].modelName = calls[k].modelName
                         /\ calls[j].modelId = calls[k].modelId

(***************************************************************************)
(* C4: n addModelMonitoring calls with identical arguments on one construct *)
(* all succeed and leave the dashboard with n times the rows and widgets    *)
(* one call appends: nothing is deduplicated.                               *)
(***************************************************************************)
C4_IdenticalModelCallsMultiply ==
    \A n \in 1..Len(calls) :
        (\A k \in 1..n : IsModelCall(k) /\ SameCall(1, k)) =>
            LET rows == dashboards[calls[1].dashboard].rows
                one  == RowsOf(1)
            IN  /\ calls[n].returned
                /\ RowsOf(n) = one
                /\ calls[n].end = n * Len(one)
                /\ WidgetCount(SubSeq(rows, 1, calls[n].end)) = n * WidgetCount(one)

\* the same priced call was made twice: 8 rows, 24 widgets
C4_Witness ==
    /\ Len(calls) >= 2
    /\ IsModelCall(1) /\ IsModelCall(2) /\ SameCall(1, 2)
    /\ HasCostWidget(1)
    /\ Len(SubSeq(dashboards[calls[1].dashboard].rows, 1, calls[2].end)) = 8
    /\ WidgetCount(SubSeq(dashboards[calls[1].dashboard].rows, 1, calls[2].end)) = 24

(***************************************************************************)
(* C5 (as stated): addAllModelsMonitoring called twice on one construct    *)
(* with the same arguments completes both times and leaves two copies of   *)
(* the all-models rows, each with its alarm-status widget referencing the  *)
(* three fixed alarms.                                                     *)
(***************************************************************************)
C5_SecondAllModelsCallDuplicates ==
    \A j \in 1..Len(calls) : \A k \in 1..Len(calls) :
        (j < k /\ IsAllModelsCall(j) /\ IsAllModelsCall(k) /\ SameCall(j, k)) =>
            /\ calls[k].returned
            /\ RowsOf(k) = RowsOf(j)
            /\ Len(RowsOf(k)) = 2
            /\ \E i \in 1..Len(WidgetsIn(RowsOf(k)[2])) :
                  /\ WidgetsIn(RowsOf(k)[2])[i].widget = "AlarmStatusWidget"
                  /\ Len(WidgetsIn(RowsOf(k)[2])[i].alarms) = 3

\* every metric a widget list shows: the metrics of tiles and gauges, the
\* left and right series of graphs, and the metrics a math expression uses
SeriesMetrics(series) ==
    UNION { IF "usingMetrics" \in DOMAIN series[i]
            THEN {series[i].usingMetrics[n] : n \in DOMAIN series[i].usingMetrics}
            ELSE {series[i]} : i \in 1..Len(series) }

WidgetMetrics(w) ==
    (IF "metrics" \in DOMAIN w THEN SeriesMetrics(w.metrics) ELSE {})
    \cup (IF "left" \in DOMAIN w THEN SeriesMetrics(w.left) ELSE {})
    \cup (IF "right" \in DOMAIN w THEN SeriesMetrics(w.right) ELSE {})

MetricsShown(rows) ==
    UNION { UNION { WidgetMetrics(WidgetsIn(rows[r])[i]) :
                      i \in 1..Len(WidgetsIn(rows[r])) } : r \in 1..Len(rows) }

CreatedBy(id) == {h \in 1..Len(dashboards) : dashboards[h].createdBy = id}

\* the dashboard binding of every construct agrees with its constructor props
BoundAsConstructed ==
    \A id \in DOMAIN constructs :
        LET c == constructs[id]
        IN  /\ c.dashboard \in 1..Len(dashboards)
            /\ IF c.props.existingDashboard # undefined
               THEN /\ c.dashboard = c.props.existingDashboard.handle
                    /\ CreatedBy(id) = {}
               ELSE /\ CreatedBy(id) = {c.dashboard}
                    /\ dashboards[c.dashboard].dashboardName =
                          IF c.props.dashboardName # undefined
                          THEN c.props.dashboardName.s
                          ELSE DefaultDashboardName

\* no step rebinds a construct or renames a dashboard
BindingIsStable ==
    /\ \A id \in DOMAIN constructs :
          /\ id \in DOMAIN constructs'
          /\ constructs'[id].dashboard = constructs[id].dashboard
    /\ \A h \in 1..Len(dashboards) :
          /\ h <= Len(dashboards')
          /\ dashboards'[h].dashboardName = dashboards[h].dashboardName
          /\ dashboards'[h].createdBy = dashboards[h].createdBy

(***************************************************************************)
(* C7: the constructor binds the construct to exactly one dashboard.  A    *)
(* supplied existingDashboard is reused as is: no dashboard is created and *)
(* dashboardName is ignored.  Otherwise exactly one dashboard is created,  *)
(* named dashboardName when given and the fixed default otherwise.  The    *)
(* handle never changes afterwards, whatever operations are called.        *)
(***************************************************************************)
C7_OneDashboardBoundForGood == [](BoundAsConstructed) /\ [][BindingIsStable]_vars

\* a construct was handed the caller's dashboard together with a
\* dashboardName, another created its own, and both were then configured
C7_Witness ==
    /\ DOMAIN constructs = {"A", "B"}
    /\ constructs["A"].props.existingDashboard # undefined
    /\ constructs["A"].props.dashboardName # undefined
    /\ dashboards[constructs["A"].dashboard].createdBy = "caller"
    /\ constructs["B"].props.existingDashboard = undefined
    /\ Len(calls) = 2
    /\ calls[1].construct = "A" /\ calls[2].construct = "B"

\* the console URL of a dashboard name: the region appears twice
ConsoleURL(name) ==
    "https://" \o AwsREGION \o ".console.aws.amazon.com/cloudwatch/home?region="
        \o AwsREGION \o "#dashboards:name=" \o name

\* each construct has one output, the URL of the dashboard it holds
OneOutputPerConstruct ==
    /\ Len(outputs) = Cardinality(DOMAIN constructs)
    /\ \A id \in DOMAIN constructs :
          \E i \in 1..Len(outputs) :
              /\ outputs[i].construct = id
              /\ outputs[i].value =
                    ConsoleURL(dashboards[constructs[id].dashboard].dashboardName)
              /\ \A j \in 1..Len(outputs) : outputs[j].construct = id => j = i

\* a step that makes a configuration call leaves the outputs alone
CallsKeepOutputs == Len(calls') > Len(calls) => outputs' = outputs

(***************************************************************************)
(* C8: every construction, on a new or a caller-supplied dashboard,        *)
(* registers exactly one output, the console URL formed from the region    *)
(* (twice) and the name of the dashboard the construct holds; the two      *)
(* configuration operations never add or change outputs.                   *)
(***************************************************************************)
C8_OneOutputWithConsoleURL == [](OneOutputPerConstruct) /\ [][CallsKeepOutputs]_vars

\* a construct built on the caller's dashboard, with a dashboardName that is
\* not that dashboard's name, has its output and was configured twice
C8_Witness ==
    /\ "A" \in DOMAIN constructs
    /\ constructs["A"].props.existingDashboard # undefined
    /\ constructs["A"].props.dashboardName = Str("TeamDashboard")
    /\ dashboards[constructs["A"].dashboard].dashboardName = CallerDashboardName
    /\ \E i \in 1..Len(outputs) :
          outputs[i].construct = "A" /\ outputs[i].value = ConsoleURL(CallerDashboardName)
    /\ Len(calls) = 2
    /\ IsModelCall(1) /\ IsAllModelsCall(2)
    /\ calls[1].construct = "A" /\ calls[2].construct = "A"

\* the widgets of a row list, all rows flattened, as a set of <<row, index>>
WidgetPositions(rows) ==
    {<<r, i>> \in (1..Len(rows)) \X (1..24) : i <= Len(WidgetsIn(rows[r]))}

\* the gauge widgets call k appended
GaugesOf(k) ==
    {WidgetsIn(RowsOf(k)[p[1]])[p[2]] : p \in
        {q \in WidgetPositions(RowsOf(k)) :
            WidgetsIn(RowsOf(k)[q[1]])[q[2]].widget = "GaugeWidget"}}

\* the threshold values of a gauge's annotations, in order
Thresholds(g) == [i \in 1..Len(g.annotations) |-> g.annotations[i].value]

(***************************************************************************)
(* C9: for every configuration, one addAllModelsMonitoring call appends    *)
(* exactly three gauges (average, min and max latency); the thresholds of  *)
(* their annotations and their axis range are the same in all three and in *)
(* every call, whatever the configuration.                                 *)
(***************************************************************************)
C9_ThreeGaugesFixedThresholds ==
    \A all \in {[k \in {j \in 1..Len(calls) : IsAllModelsCall(j)} |-> GaugesOf(k)]} :
        \A k \in DOMAIN all :
            /\ Cardinality(all[k]) = 3
            /\ {g.metrics[1].statistic : g \in all[k]}
                  = {StatsAVERAGE, StatsMINIMUM, StatsMAXIMUM}
            /\ \A g \in all[k] :
                  /\ Len(g.metrics) = 1
                  /\ g.metrics[1].metricName = "InvocationLatency"
                  /\ "dimensionsMap" \notin DOMAIN g.metrics[1]
            /\ \A j \in DOMAIN all :
                  \A g \in all[k], f \in all[j] :
                      /\ Thresholds(g) = Thresholds(f)
                      /\ g.leftYAxis = f.leftYAxis

\* two constructs were each configured once, with different periods, and
\* both calls returned
C9_Witness ==
    /\ Len(calls) = 2
    /\ IsAllModelsCall(1) /\ IsAllModelsCall(2)
    /\ calls[1].returned /\ calls[2].returned
    /\ calls[1].props.period = undefined
    /\ calls[2].props.period = Minutes(5)
    /\ Cardinality(GaugesOf(1) \cup GaugesOf(2)) = 6

\* token counts the cost series are evaluated at
TokenCounts == {0, 1, 999, 2500}

\* token counts the additivity of the cost series is tried on
AddedCounts == {1, 999}

\* one datapoint of each token-sum metric
Datapoints(inputTokens, outputTokens) ==
    [n \in {"InputTokenCount", "OutputTokenCount"} |->
        IF n = "InputTokenCount" THEN inputTokens ELSE outputTokens]

\* a metric is the Sum of metricName for model modelId
IsTokenSumOf(m, metricName, modelId) ==
    /\ m.metricName = metricName
    /\ m.statistic = StatsSUM
    /\ m.dimensionsMap = [ModelId |-> modelId]

(***************************************************************************)
(* C10: when both prices are supplied, the cost graph carries exactly      *)
(* three series: input cost = inputTokens / 1000 * inputTokenPrice and     *)
(* output cost = outputTokens / 1000 * outputTokenPrice on the left axis,  *)
(* total cost on the right axis; each is linear in the token-sum metrics   *)
(* of the same model, and for all token counts total = input + output.     *)
(***************************************************************************)
C10_ThreeLinearCostSeries ==
    \A k \in 1..Len(calls) :
        (IsModelCall(k) /\ Truthy(calls[k].props.inputTokenPrice)
                        /\ Truthy(calls[k].props.outputTokenPrice)) =>
            \A g \in {WidgetsIn(RowsOf(k)[3])[2]} :
                LET pi == calls[k].props.inputTokenPrice
                    po == calls[k].props.outputTokenPrice
                    id == calls[k].modelId
                IN  /\ IsCostGraph(g)
                    /\ Len(g.left) = 2 /\ Len(g.right) = 1
                    /\ DOMAIN g.left[1].usingMetrics = {"inputTokens"}
                    /\ DOMAIN g.left[2].usingMetrics = {"outputTokens"}
                    /\ DOMAIN g.right[1].usingMetrics = {"inputTokens", "outputTokens"}
                    /\ \A s \in {g.left[1], g.right[1]} :
                          IsTokenSumOf(s.usingMetrics.inputTokens, "InputTokenCount", id)
                    /\ \A s \in {g.left[2], g.right[1]} :
                          IsTokenSumOf(s.usingMetrics.outputTokens, "OutputTokenCount", id)
                    /\ \A i \in TokenCounts, o \in TokenCounts :
                          \A v \in {[s \in 1..3 |->
                                       Evaluate((g.left \o g.right)[s], Datapoints(i, o))]} :
                              /\ v[1] = Norm(<<i * pi.n, 1000 * pi.d>>)
                              /\ v[2] = Norm(<<o * po.n, 1000 * po.d>>)
                              /\ v[3] = RAdd(v[1], v[2])
                    /\ \A i \in AddedCounts, j \in AddedCounts :
                          \A s \in {g.left[1], g.left[2], g.right[1]} :
                              Evaluate(s, Datapoints(i + j, i + j))
                                  = RAdd(Evaluate(s, Datapoints(i, i)),
                                         Evaluate(s, Datapoints(j, j)))

\* with the prices 0.003 and 0.015, 1000 input and 2500 output tokens cost
\* 0.003 + 0.0375 = 0.0405
C10_Witness ==
    \E k \in 1..Len(calls) :
        /\ IsModelCall(k)
        /\ calls[k].props.inputTokenPrice = Num(3, 1000)
        /\ calls[k].props.outputTokenPrice = Num(15, 1000)
        /\ HasCostWidget(k)
        /\ REq(Evaluate(WidgetsIn(RowsOf(k)[3])[2].right[1], Datapoints(1000, 2500)),
               <<405, 10000>>)


(***************************************************************************)
(* The widget list of a dashboard only grows at its end.                   *)
(***************************************************************************)
IsPrefix(s, t) == Len(s) <= Len(t) /\ SubSeq(t, 1, Len(s)) = s

RowsOnlyAppended ==
    \A h \in 1..Len(dashboards) :
        /\ h <= Len(dashboards')
        /\ IsPrefix(dashboards[h].rows, dashboards'[h].rows)

\* C11: every step leaves each dashboard's row list with the list it had
\* before the step as a prefix: no row is removed, replaced or reordered.
C11_RowsAppendOnly == [][RowsOnlyAppended]_vars

\* a caller's dashboard that already held a row has since received the
\* rows of one call of each operation, behind the row it held
C11_Witness ==
    \E h \in 1..Len(dashboards) :
        /\ dashboards[h].createdBy = "caller"
        /\ Len(dashboards[h].rows) = 7
        /\ <<dashboards[h].rows[1]>> \in PriorRows
        /\ \E j, k \in 1..Len(calls) :
               /\ IsModelCall(j) /\ IsAllModelsCall(k)
               /\ calls[j].dashboard = h /\ calls[k].dashboard = h
               /\ calls[k].returned


(***************************************************************************)
(* Dimensions and period of the metric references of addModelMonitoring.   *)
(***************************************************************************)
\* the metric references of call k other than the output-image count
ModelScopedMetrics(k) ==
    {i \in 1..Len(calls[k].metrics) :
        calls[k].metrics[i].metricName # "OutputImageCount"}

UsesGivenPeriod(k) ==
    calls[k].props.period # undefined =>
        \A i \in 1..Len(calls[k].metrics) :
            calls[k].metrics[i].period = calls[k].props.period

TagOrEmpty(v) == IF v = undefined THEN "" ELSE v.s

\* the ModelId values of the output-image count metric of call k
OutputImageModelIds(k) ==
    {calls[k].metrics[i].dimensionsMap.ModelId :
        i \in {j \in 1..Len(calls[k].metrics) :
                  calls[k].metrics[j].metricName = "OutputImageCount"}}

\* C13: the output-image count uses the ModelId value "ModelId + ImageSize
\* + BucketedStepSize" with an omitted tag counting as empty: the model
\* identifier alone when both are omitted, the model identifier followed
\* by the one tag given when only one is.
C13_OmittedImageTagsAreEmpty ==
    \A k \in 1..Len(calls) :
        IsModelCall(k) =>
            OutputImageModelIds(k) =
                {calls[k].modelId \o TagOrEmpty(calls[k].props.imageSize)
                                  \o TagOrEmpty(calls[k].props.bucketedStepSize)}


(***************************************************************************)
(* The defaults the props documentation states.                            *)
(***************************************************************************)
\* ModelMonitoringProps.period: "@default - 1 hour"
DocumentedDefaultPeriod == Minutes(60)

\* BedrockCwDashboardProps.dashboardName: "... will create a new dashboard
\* named 'BedrockMetricsDashboard'"
DocumentedDashboardName == "BedrockMetricsDashboard"

\* C14: when period is not provided, the aggregation period of the metric
\* references a call builds is one hour.
C14_OmittedPeriodIsOneHour ==
    \A k \in 1..Len(calls) :
        calls[k].props.period = undefined =>
            \A i \in 1..Len(calls[k].metrics) :
                calls[k].metrics[i].period = DocumentedDefaultPeriod

\* C15: a construct given neither existingDashboard nor dashboardName
\* creates a new dashboard named 'BedrockMetricsDashboard'.
C15_DefaultNameIsBedrockMetricsDashboard ==
    \A id \in DOMAIN constructs :
        (/\ constructs[id].props.existingDashboard = undefined
         /\ constructs[id].props.dashboardName = undefined) =>
            /\ dashboards[constructs[id].dashboard].createdBy = id
            /\ dashboards[constructs[id].dashboard].dashboardName
                   = DocumentedDashboardName


(***************************************************************************)
(* The stack entry point, CdkAnybooksDashboardStack.  Its constructor      *)
(* creates one construct named 'BedrockDashboardConstruct' in the stack    *)
(* and makes a fixed list of calls on it.  The source holds two            *)
(* definitions of the class; an app instantiates either, once per stack    *)
(* id, one stack after the other.                                          *)
(***************************************************************************)
\* the ids the app gives its stacks
StackIds == {"Dev", "Staging", "Prod"}

\* the construct of stack s, by its path in the app (the stack is its scope)
StackConstruct(s) == s \o "/BedrockDashboardConstruct"

\* bedrock.BedrockFoundationModel.ANTHROPIC_CLAUDE_3_5_SONNET_V2_0.modelId
ANTHROPIC_CLAUDE_3_5_SONNET_V2_0 == "anthropic.claude-3-5-sonnet-20241022-v2:0"

\* bddashboard.addAllModelsMonitoring({ period: cdk.Duration.minutes(1) })
StackAllModelsCall ==
    [op |-> "addAllModelsMonitoring", props |-> [NoProps EXCEPT !.period = Minutes(1)]]

StackModelCall(modelName, modelId, props) ==
    [op |-> "addModelMonitoring", modelName |-> modelName, modelId |-> modelId,
     props |-> props]

\* the props of the second definition: prices 0.00025 and 0.00125, one minute
StackPropsSecond ==
    [NoProps EXCEPT !.inputTokenPrice = Num(25, 100000),
                    !.outputTokenPrice = Num(125, 100000),
                    !.period = Minutes(1)]

\* a stack that monitors its two models before it adds the all-models rows
StackCallsFirstModelsFirst ==
    << StackModelCall("Claude 3.5 Sonnet v2", ANTHROPIC_CLAUDE_3_5_SONNET_V2_0, StackProps),
       StackModelCall("Claude 3.7 Sonnet",
                      "us.anthropic.claude-3-7-sonnet-20250219-v1:0", StackProps),
       StackAllModelsCall >>

\* the calls of the first definition, in program order
StackCallsFirst ==
    << StackAllModelsCall,
       StackModelCall("Claude 3.5 Sonnet v2", ANTHROPIC_CLAUDE_3_5_SONNET_V2_0, StackProps),
       StackModelCall("Claude 3.7 Sonnet",
                      "us.anthropic.claude-3-7-sonnet-20250219-v1:0", StackProps) >>

\* the calls of the second definition, in program order
StackCallsSecond ==
    << StackAllModelsCall,
       StackModelCall(ANTHROPIC_CLAUDE_3_5_SONNET_V2_0, ANTHROPIC_CLAUDE_3_5_SONNET_V2_0,
                      StackPropsSecond) >>

StackDefinitions == {StackCallsFirst, StackCallsSecond}

\* the positions in the call log of the calls made on construct id, in order
CallsOn(id) ==
    SelectSeq([i \in 1..Len(calls) |-> i], LAMBDA i : calls[i].construct = id)

\* logged call k is the call c of a stack's program
IsStackCall(k, c) ==
    /\ calls[k].op = c.op
    /\ calls[k].props = c.props
    /\ c.op = "addModelMonitoring" =>
          /\ calls[k].modelName = c.modelName
          /\ calls[k].modelId = c.modelId

\* the calls stack s has made so far are the first calls of program
StackFollows(s, program) ==
    LET made == CallsOn(StackConstruct(s))
    IN  /\ Len(made) <= Len(program)
        /\ \A i \in 1..Len(made) : IsStackCall(made[i], program[i])

StackStarted(s) == StackConstruct(s) \in DOMAIN constructs

\* the constructor of stack s has run to its end
StackDone(s) ==
    /\ StackStarted(s)
    /\ \E program \in StackDefinitions :
          /\ StackFollows(s, program)
          /\ Len(CallsOn(StackConstruct(s))) = Len(program)

\* const bddashboard = new BedrockCwDashboard(this, 'BedrockDashboardConstruct')
StackCreatesConstruct(s) ==
    /\ \A t \in StackIds : StackStarted(t) => StackDone(t)
    /\ Constructor(StackConstruct(s),
                   [existingDashboard |-> undefined, dashboardName |-> undefined])

\* the next statement of the constructor of stack s
StackMakesCall(s) ==
    /\ StackStarted(s)
    /\ \E program \in StackDefinitions :
          /\ StackFollows(s, program)
          /\ Len(CallsOn(StackConstruct(s))) < Len(program)
          /\ LET c == program[Len(CallsOn(StackConstruct(s))) + 1]
             IN  IF c.op = "addAllModelsMonitoring"
                 THEN addAllModelsMonitoring(StackConstruct(s), c.props)
                 ELSE addModelMonitoring(StackConstruct(s), c.modelName, c.modelId,
                                         c.props)

NextStack ==
    \/ \E s \in StackIds : StackCreatesConstruct(s)
    \/ \E s \in StackIds : StackMakesCall(s)

SpecStack == Init /\ [][NextStack]_vars


\* the row of a dashboard at which the i-th call of a stack starts: the
\* all-models call appends two rows, each per-model call four
StackRowBefore(i) == IF i = 1 THEN 0 ELSE 2 + 4 * (i - 2)

IsGaugeRow(row) ==
    /\ Len(WidgetsIn(row)) = 4
    /\ WidgetsIn(row)[1].widget = "TextWidget"
    /\ \A i \in 2..4 : WidgetsIn(row)[i].widget = "GaugeWidget"

IsAllModelsSecondRow(row) ==
    /\ \E i \in 1..Len(WidgetsIn(row)) : WidgetsIn(row)[i].widget = "AlarmStatusWidget"
    /\ \A i \in 1..Len(WidgetsIn(row)) : WidgetsIn(row)[i].widget # "GaugeWidget"

\* C16: a stack creates exactly one construct, with a dashboard of its
\* own; the first call it makes is addAllModelsMonitoring and every later
\* one is addModelMonitoring with both prices and a period; so the
\* dashboard holds the two all-models rows first and then, in call order,
\* the four rows of each model, the cost graph among them.
C16_StackRowsInCallOrder ==
    /\ DOMAIN constructs = {StackConstruct(s) : s \in {t \in StackIds : StackStarted(t)}}
    /\ Len(dashboards) = Cardinality(DOMAIN constructs)
    /\ \A s \in StackIds :
          StackStarted(s) =>
              \A made \in {CallsOn(StackConstruct(s))} :
              \A rows \in {dashboards[constructs[StackConstruct(s)].dashboard].rows} :
                  /\ dashboards[constructs[StackConstruct(s)].dashboard].createdBy
                        = StackConstruct(s)
                  /\ Len(rows) = IF Len(made) = 0 THEN 0 ELSE StackRowBefore(Len(made) + 1)
                  /\ \A i \in 1..Len(made) :
                        /\ calls[made[i]].returned
                        /\ calls[made[i]].start = StackRowBefore(i)
                        /\ calls[made[i]].end = StackRowBefore(i + 1)
                        /\ IsAllModelsCall(made[i]) <=> i = 1
                        /\ i = 1 => /\ IsGaugeRow(rows[1])
                                    /\ IsAllModelsSecondRow(rows[2])
                        /\ i > 1 =>
                              /\ IsModelCall(made[i])
                              /\ calls[made[i]].props.period # undefined
                              /\ calls[made[i]].props.inputTokenPrice # undefined
                              /\ calls[made[i]].props.outputTokenPrice # undefined
                              /\ IsTitleRow(rows[StackRowBefore(i) + 1],
                                            calls[made[i]].modelName)
                              /\ IsLatencyRow(rows[StackRowBefore(i) + 2])
                              /\ IsTokenCostRow(rows[StackRowBefore(i) + 3])
                              /\ Len(WidgetsIn(rows[StackRowBefore(i) + 3])) = 2
                              /\ IsSixTileRow(rows[StackRowBefore(i) + 4])

\* one stack of each definition has been created: the dashboard of the
\* first holds ten rows for its two models, that of the second six
C16_Witness ==
    \E s, t \in StackIds :
        /\ StackDone(s) /\ StackDone(t)
        /\ StackFollows(s, StackCallsFirst)
        /\ StackFollows(t, StackCallsSecond)
        /\ Len(dashboards[constructs[StackConstruct(s)].dashboard].rows) = 10
        /\ Len(dashboards[constructs[StackConstruct(t)].dashboard].rows) = 6


\* C17: every call has either returned, with all its rows appended, or
\* failed and left the row list of its dashboard as it was before the call.
C17_NoPartialAppend ==
    \A k \in 1..Len(calls) :
        \/ calls[k].returned
        \/ calls[k].end = calls[k].start


(***************************************************************************)
(* The aggregation period of what addAllModelsMonitoring builds.           *)
(***************************************************************************)
\* the widgets of the rows call k appended that carry a period of their own
PeriodWidgetsOf(k) ==
    {w \in {WidgetsIn(RowsOf(k)[p[1]])[p[2]] : p \in WidgetPositions(RowsOf(k))} :
        "period" \in DOMAIN w}

\* the invocation count of the fixed chat model, and the graph that shows it
IsPerMinuteMetric(m) ==
    /\ m.metricName = "Invocations"
    /\ "dimensionsMap" \in DOMAIN m
    /\ m.dimensionsMap = [ModelId |-> "anthropic.claude-3-5-sonnet-20241022-v2:0"]

IsPerMinuteGraph(w) ==
    /\ w.widget = "GraphWidget"
    /\ \E m \in WidgetMetrics(w) : IsPerMinuteMetric(m)

\* C18 as stated: every metric reference and every widget of an
\* addAllModelsMonitoring call given a period, the invocation count of the
\* fixed chat model and its graph included, has the period given.
C18_Original_AllAtConfiguredPeriod ==
    \A k \in 1..Len(calls) :
        (IsAllModelsCall(k) /\ calls[k].props.period # undefined) =>
            /\ \A i \in 1..Len(calls[k].metrics) :
                  calls[k].metrics[i].period = calls[k].props.period
            /\ \A m \in MetricsShown(RowsOf(k)) : m.period = calls[k].props.period
            /\ \A w \in PeriodWidgetsOf(k) : w.period = calls[k].props.period

\* C18 amended: every metric reference and every widget of an
\* addAllModelsMonitoring call given a period has the period given, except
\* the invocation count of the fixed chat model and the graph that shows
\* it, which have one minute whatever period is given.
C18_AllButPerMinuteAtConfiguredPeriod ==
    \A k \in 1..Len(calls) :
        (IsAllModelsCall(k) /\ calls[k].props.period # undefined) =>
            /\ Len(calls[k].metrics) = 16
            /\ \A i \in 1..Len(calls[k].metrics) :
                  calls[k].metrics[i].period =
                      IF IsPerMinuteMetric(calls[k].metrics[i])
                      THEN Duration(60) ELSE calls[k].props.period
            /\ \A m \in MetricsShown(RowsOf(k)) :
                  m.period = IF IsPerMinuteMetric(m)
                             THEN Duration(60) ELSE calls[k].props.period
            /\ \A w \in PeriodWidgetsOf(k) :
                  w.period = IF IsPerMinuteGraph(w)
                             THEN Duration(60) ELSE calls[k].props.period

\* a call given five minutes has returned: its per-minute graph and the
\* metric on it have one minute, its gauges five
C18_Witness ==
    \E k \in 1..Len(calls) :
        /\ IsAllModelsCall(k)
        /\ calls[k].returned
        /\ calls[k].props.period = Minutes(5)
        /\ \E w \in PeriodWidgetsOf(k) :
              /\ IsPerMinuteGraph(w)
              /\ w.period = Duration(60)
              /\ \A m \in WidgetMetrics(w) : m.period = Duration(60)
        /\ \A g \in GaugesOf(k) : g.period = Minutes(5)
        /\ Cardinality(GaugesOf(k)) = 3


(***************************************************************************)
(* The colour bands of the latency gauges.                                 *)
(***************************************************************************)
\* Shading.BELOW shades the part of the axis below the annotation's value,
\* Shading.ABOVE the part above it
Shaded(annotation, v) ==
    IF annotation.fill = "below" THEN v < annotation.value
    ELSE annotation.fill = "above" /\ v > annotation.value

\* the bands of gauge g (by position in its annotations) that hold value v
BandsAt(g, v) == {i \in 1..Len(g.annotations) : Shaded(g.annotations[i], v)}

\* latencies in milliseconds on the gauges' axis, on either side of the
\* thresholds
Latencies == {0, 4999, 5001, 7999, 8001, 15000}

\* C19: the three bands of each latency gauge partition its range: a value
\* below the low threshold is in the first band only, one between the two
\* thresholds in the second only, one above the high threshold in the
\* third only.
C19_GaugeBandsPartitionRange ==
    \A k \in 1..Len(calls) :
        IsAllModelsCall(k) =>
            \A g \in GaugesOf(k) :
                /\ Len(g.annotations) = 3
                /\ \A low \in {g.annotations[1].value}, high \in {g.annotations[3].value} :
                   \A v \in Latencies :
                      /\ v < low => BandsAt(g, v) = {1}
                      /\ (low < v /\ v < high) => BandsAt(g, v) = {2}
                      /\ high < v => BandsAt(g, v) = {3}


(***************************************************************************)
(* C20: in the rows of an addModelMonitoring call the latency tiles are,   *)
(* in order, average, minimum and maximum latency, and the tiles of the    *)
(* last row invocations, client errors, server errors, throttles, legacy   *)
(* invocations and output-image count; each tile shows one metric, the one *)
(* its title names, with the statistic that goes with it (average,         *)
(* minimum, maximum for the latencies, sum for the counts); the token      *)
(* graph has the input tokens on its left axis and the output tokens on    *)
(* its right axis.                                                         *)
(***************************************************************************)
C20_TilesInOrderShowTheirMetric ==
    \A k \in 1..Len(calls) :
        IsModelCall(k) =>
            \A rows \in {RowsOf(k)} :
                /\ Len(rows) = 4
                /\ \A t \in {WidgetsIn(rows[2])} :
                      /\ Len(t) = 3
                      /\ IsSingleValue(t[1], "Average Latency", "InvocationLatency", StatsAVERAGE)
                      /\ IsSingleValue(t[2], "Min Latency", "InvocationLatency", StatsMINIMUM)
                      /\ IsSingleValue(t[3], "Max Latency", "InvocationLatency", StatsMAXIMUM)
                /\ \A g \in {WidgetsIn(rows[3])[1]} :
                      /\ IsTokenCountGraph(g)
                      /\ Len(g.left) = 1 /\ Len(g.right) = 1
                      /\ g.left[1].metricName = "InputTokenCount"
                      /\ g.right[1].metricName = "OutputTokenCount"
                      /\ g.left[1].statistic = StatsSUM
                      /\ g.right[1].statistic = StatsSUM
                /\ \A t \in {WidgetsIn(rows[4])} :
                      /\ Len(t) = 6
                      /\ IsSingleValue(t[1], "Invocations", "Invocations", StatsSUM)
                      /\ IsSingleValue(t[2], "Client Errors", "InvocationClientErrors", StatsSUM)
                      /\ IsSingleValue(t[3], "Server Errors", "InvocationServerErrors", StatsSUM)
                      /\ IsSingleValue(t[4], "Throttled invocations", "InvocationThrottles", StatsSUM)
                      /\ IsSingleValue(t[5], "Legacy invocations", "LegacyModelInvocations", StatsSUM)
                      /\ IsSingleValue(t[6], "OutputImageCount", "OutputImageCount", StatsSUM)

\* calls with and without the cost graph have appended their rows: nine
\* tiles each, and the token graph first in the third row
C20_Witness ==
    /\ Len(calls) = 2
    /\ IsModelCall(1) /\ IsModelCall(2)
    /\ HasCostWidget(1) /\ ~HasCostWidget(2)
    /\ \A k \in 1..2 :
          /\ Len(WidgetsIn(RowsOf(k)[2])) + Len(WidgetsIn(RowsOf(k)[4])) = 9
          /\ IsTokenCountGraph(WidgetsIn(RowsOf(k)[3])[1])


(***************************************************************************)
(* The make-up of the rows of addAllModelsMonitoring.                      *)
(***************************************************************************)
\* the kind of a widget; a log-query widget counts by its view
KindOf(w) == IF w.widget = "LogQueryWidget" THEN w.view ELSE w.widget

KindsIn(row) == [i \in 1..Len(WidgetsIn(row)) |-> KindOf(WidgetsIn(row)[i])]

Tiles(n) == [i \in 1..n |-> "SingleValueWidget"]

\* the alarm-status widgets of a row, by position
AlarmWidgetsIn(row) ==
    {i \in 1..Len(WidgetsIn(row)) : WidgetsIn(row)[i].widget = "AlarmStatusWidget"}

HasThreeFixedAlarms(row) ==
    /\ Cardinality(AlarmWidgetsIn(row)) = 1
    /\ \A i \in AlarmWidgetsIn(row) :
          [j \in 1..Len(WidgetsIn(row)[i].alarms) |-> WidgetsIn(row)[i].alarms[j].id]
              = <<"Alarm", "Alarm2", "Alarm3">>

\* call k is the first addAllModelsMonitoring call made on its construct
IsFirstAllModelsCall(k) ==
    /\ IsAllModelsCall(k)
    /\ \A j \in 1..(k - 1) :
          IsAllModelsCall(j) => calls[j].construct # calls[k].construct

BoundTo(h) == {id \in DOMAIN constructs : constructs[id].dashboard = h}

\* the calls that appended to dashboard h, and the constructs they were made on
CallsInto(h) == {k \in 1..Len(calls) : calls[k].dashboard = h}

Appenders(h) == {calls[k].construct : k \in CallsInto(h)}

\* row r of dashboard h was appended by one of the logged calls
RowFromCall(h, r) ==
    \E k \in CallsInto(h) : calls[k].start < r /\ r <= calls[k].end

\* C22 as stated: no two constructs append to the same dashboard, also
\* when the dashboard was passed in as existingDashboard.
C22_Original_NoSharedDashboard ==
    \A h \in 1..Len(dashboards) : Cardinality(Appenders(h)) <= 1

\* C22 amended: a construct appends only to the dashboard it is bound to;
\* a dashboard bound to one construct has one appender, and every row of a
\* dashboard that a construct created comes from a call of a construct
\* bound to it.  A dashboard passed in as existingDashboard can be bound to
\* several constructs, which then all append to it.
C22_AppendsOnlyToBoundDashboard ==
    /\ \A k \in 1..Len(calls) :
          calls[k].dashboard = constructs[calls[k].construct].dashboard
    /\ \A h \in 1..Len(dashboards) :
          /\ Appenders(h) \subseteq BoundTo(h)
          /\ Cardinality(BoundTo(h)) <= 1 => Cardinality(Appenders(h)) <= 1
          /\ dashboards[h].createdBy # "caller" =>
                \A r \in 1..Len(dashboards[h].rows) : RowFromCall(h, r)

\* the caller's dashboard was handed to two constructs and each has
\* appended its rows to it
C22_Witness ==
    \E h \in 1..Len(dashboards) :
        /\ dashboards[h].createdBy = "caller"
        /\ BoundTo(h) = {"A", "B"}
        /\ Appenders(h) = {"A", "B"}
        /\ \A id \in BoundTo(h) : constructs[id].props.existingDashboard # undefined


(***************************************************************************)
(* The rows of a call as a function of its arguments.                      *)
(***************************************************************************)
\* calls j and k are the same operation with the same arguments, on
\* whatever construct and dashboard
SameArguments(j, k) ==
    /\ calls[j].op = calls[k].op
    /\ calls[j].props = calls[k].props
    /\ IsModelCall(j) => /\ calls[j].modelName = calls[k].modelName
                         /\ calls[j].modelId = calls[k].modelId

\* the rows dashboard h held before the first call into it
RowsHeldBefore(h) ==
    IF CallsInto(h) = {} THEN Len(dashboards[h].rows)
    ELSE calls[CHOOSE k \in CallsInto(h) : \A j \in CallsInto(h) : k <= j].start

\* the calls into dashboard h lie end to end, in call order, behind the
\* rows it held before
CallsLieEndToEnd(h) ==
    /\ \A k \in CallsInto(h) :
          calls[k].start =
              IF \E j \in CallsInto(h) : j < k
              THEN calls[CHOOSE j \in CallsInto(h) :
                            j < k /\ \A i \in CallsInto(h) : i < k => i <= j].end
              ELSE RowsHeldBefore(h)
    /\ \A k \in CallsInto(h) :
          (\A j \in CallsInto(h) : j <= k) => calls[k].end = Len(dashboards[h].rows)

\* C23: the rows a call appends depend on its arguments only: two calls
\* with the same arguments append the same rows, whatever the dashboard
\* held before, and the row list of a dashboard is the rows of the calls
\* into it, one after the other in call order.
C23_RowsFunctionOfArguments ==
    /\ \A j, k \in 1..Len(calls) : SameArguments(j, k) => RowsOf(j) = RowsOf(k)
    /\ \A h \in 1..Len(dashboards) : CallsLieEndToEnd(h)


\* the metric references call k built that no widget it appended shows
MetricsNotShown(k) ==
    {calls[k].metrics[i] : i \in 1..Len(calls[k].metrics)} \ MetricsShown(RowsOf(k))

\* C24: every metric reference a call builds is shown by a widget the same
\* call appends, the all-models legacy-invocation and output-image counts
\* of addAllModelsMonitoring among them.
C24_EveryMetricBuiltIsShown ==
    \A k \in 1..Len(calls) : MetricsNotShown(k) = {}

====
